---- MODULE Spec2Model ----
(***************************************************************************)
(* Latvia fuel bot: the fuel vocabulary normalizer, the five source        *)
(* adapters, the aggregator (FuelFetcher.fetch_all) and the /top handler.  *)
(*                                                                         *)
(* Text is a sequence of one-character strings; a character outside ASCII  *)
(* is written by its code point ("U+012B" is i-macron).  Prices are held   *)
(* in thousandths of a euro.  An optional value is <<>> (Python None) or   *)
(* <<v>>.                                                                  *)
(***************************************************************************)
EXTENDS Integers, Sequences, FiniteSets, TLC

\* ------------------------------------------------------------------ bounds
MaxPad == 1

\* ------------------------------------------------------------------- text
Whitespace == {" ", "\t"}

UpperChars ==
  <<"A","B","C","D","E","F","G","H","I","J","K","L","M","N","O","P","Q","R",
    "S","T","U","V","W","X","Y","Z","U+0100","U+012A","U+013B","U+0160">>

LowerChars ==
  <<"a","b","c","d","e","f","g","h","i","j","k","l","m","n","o","p","q","r",
    "s","t","u","v","w","x","y","z","U+0101","U+012B","U+013C","U+0161">>

LowerOf == [c \in {UpperChars[i] : i \in 1..Len(UpperChars)} |->
              LowerChars[CHOOSE i \in 1..Len(UpperChars) : UpperChars[i] = c]]

LowerChar(c) == IF c \in DOMAIN LowerOf THEN LowerOf[c] ELSE c

\* str.lower()
Lower(s) == [i \in 1..Len(s) |-> LowerChar(s[i])]

RECURSIVE LStrip(_)
LStrip(s) ==
  IF s # <<>> /\ Head(s) \in Whitespace THEN LStrip(Tail(s)) ELSE s

RECURSIVE RStrip(_)
RStrip(s) ==
  IF s # <<>> /\ s[Len(s)] \in Whitespace
  THEN RStrip(SubSeq(s, 1, Len(s) - 1))
  ELSE s

StripLeftOnly(s) == LStrip(s)

\* str.strip()
Strip(s) == RStrip(LStrip(s))

\* ------------------------------------------------------- fuel vocabulary
None == <<>>

SUPPORTED_FUELS == {"a95", "a98", "diesel", "lpg"}

\* the text of each canonical id
FuelText ==
  [a95    |-> <<"a","9","5">>,
   a98    |-> <<"a","9","8">>,
   diesel |-> <<"d","i","e","s","e","l">>,
   lpg    |-> <<"l","p","g">>]

FUEL_ALIASES ==
  [a95 |-> {<<"a","9","5">>,
      <<"9","5">>,
      <<"9","5","e">>,
      <<"9","5","m","i","l","e","s">>,
      <<"f","u","t","u","r","a"," ","9","5">>,
      <<"a","-","9","5">>,
      <<"e","u","r","o","s","u","p","e","r"," ","9","5">>},
   a98 |-> {<<"a","9","8">>,
      <<"9","8">>,
      <<"9","8","e">>,
      <<"9","8","m","i","l","e","s">>,
      <<"f","u","t","u","r","a"," ","9","8">>,
      <<"a","-","9","8">>,
      <<"e","u","r","o","s","u","p","e","r"," ","9","8">>},
   diesel |-> {<<"d","i","e","s","e","l">>,
      <<"d">>,
      <<"d","U+012B","z","e","l","i","s">>,
      <<"d","-","m","i","l","e","s">>,
      <<"d","m","i","l","e","s">>,
      <<"f","u","t","u","r","a"," ","d">>,
      <<"m","i","l","e","s"," ","d","i","e","s","e","l">>,
      <<"d","U+012B","z","e","U+013C","d","e","g","v","i","e","l","a">>},
   lpg |-> {<<"l","p","g">>,
      <<"a","u","t","o","g","U+0101","z","e">>,
      <<"a","u","t","o"," ","g","U+0101","z","e">>,
      <<"a","u","t","o","g","a","s">>,
      <<"p","r","o","p","U+0101","n","s","-","b","u","t","U+0101","n","s">>}]

\* iteration order of FUEL_ALIASES.items()
AliasOrder == <<"a95", "a98", "diesel", "lpg">>

Loose95 == {<<"9","5","e">>, <<"9","5","m">>, <<"a","9","5","e">>}

Loose98 == {<<"9","8","e">>, <<"9","8","m">>, <<"a","9","8","e">>}

\* normalize_fuel_type: <<id>> for a recognised label, None otherwise
normalize_fuel_type(s) ==
  LET t == Lower(Strip(s))
      hits == {i \in 1..Len(AliasOrder) : t \in FUEL_ALIASES[AliasOrder[i]]}
  IN  IF hits # {}
      THEN <<AliasOrder[CHOOSE i \in hits : \A j \in hits : i <= j]>>
      ELSE IF t \in Loose95 THEN <<"a95">>
      ELSE IF t \in Loose98 THEN <<"a98">>
      ELSE IF \E f \in SUPPORTED_FUELS : FuelText[f] = t
           THEN <<CHOOSE f \in SUPPORTED_FUELS : FuelText[f] = t>>
           ELSE None

\* --------------------------------------------- labels given to normalize
UpperOf == [c \in {LowerChars[i] : i \in 1..Len(LowerChars)} |->
              UpperChars[CHOOSE i \in 1..Len(LowerChars) : LowerChars[i] = c]]

UpperChar(c) == IF c \in DOMAIN UpperOf THEN UpperOf[c] ELSE c

Upper(s) == [i \in 1..Len(s) |-> UpperChar(s[i])]

Capitalize(s) == [i \in 1..Len(s) |-> IF i = 1 THEN UpperChar(s[i]) ELSE s[i]]

AllAliases == UNION {FUEL_ALIASES[f] : f \in SUPPORTED_FUELS}

\* labels that are no alias, no loose form and no canonical id
OtherLabels ==
  {<<>>,
   <<"p","e","t","r","o","l">>,
   <<"e","8","5">>,
   <<"9","5","x">>,
   <<"a","9","5","m">>,
   <<"l","p","g","s">>,
   <<"d","i","e","s","e","l","e">>,
   <<"a"," ","9","5">>}

BaseLabels == AllAliases \cup Loose95 \cup Loose98 \cup OtherLabels

Pads == UNION {[1..k -> Whitespace] : k \in 0..MaxPad}

Casings(b) == {b, Upper(b), Capitalize(b)}

Dress(l, c, r) == l \o c \o r

Labels ==
  {Dress(l, c, r) : l \in Pads, r \in Pads,
                    c \in UNION {Casings(b) : b \in BaseLabels}}

\* ------------------------------------------------------------ parse_eur
DigitChars == <<"0","1","2","3","4","5","6","7","8","9">>

DigitOf == [c \in {DigitChars[i] : i \in 1..Len(DigitChars)} |->
              (CHOOSE i \in 1..Len(DigitChars) : DigitChars[i] = c) - 1]

IsDigit(c) == c \in DOMAIN DigitOf

DigitValue(c) == DigitOf[c]

RECURSIVE DigitsValue(_)
DigitsValue(ds) ==
  IF ds = <<>> THEN 0
  ELSE 10 * DigitsValue(SubSeq(ds, 1, Len(ds) - 1)) + DigitValue(ds[Len(ds)])

\* str.replace(old, new) for single characters
Replace(s, old, new) == [i \in 1..Len(s) |-> IF s[i] = old THEN new ELSE s[i]]

\* the fraction digits as thousandths, as round(x, 3) leaves them; a fourth
\* digit rounds to nearest
FracMilli(fs) ==
  LET d(i) == IF i <= Len(fs) THEN DigitValue(fs[i]) ELSE 0
  IN  100 * d(1) + 10 * d(2) + d(3) + (IF d(4) >= 5 THEN 1 ELSE 0)

\* parse_eur: <<thousandths>>, or None when float() raises.  The texts float()
\* takes are modelled as [sign] digits [. digits], with a digit on one side
\* of the point at least.
parse_eur(s) ==
  LET t == Strip(Replace(s, ",", "."))
      signed == t # <<>> /\ Head(t) \in {"+", "-"}
      u == IF signed THEN Tail(t) ELSE t
      dots == {i \in 1..Len(u) : u[i] = "."}
      dot == IF dots = {} THEN Len(u) + 1 ELSE CHOOSE i \in dots : TRUE
      whole == SubSeq(u, 1, dot - 1)
      frac == SubSeq(u, dot + 1, Len(u))
      wellFormed ==
        /\ Cardinality(dots) <= 1
        /\ \A i \in 1..Len(u) : i \notin dots => IsDigit(u[i])
        /\ Len(whole) + Len(frac) >= 1
      magnitude == 1000 * DigitsValue(whole) + FracMilli(frac)
  IN  IF ~wellFormed THEN None
      ELSE IF signed /\ Head(t) = "-" THEN <<0 - magnitude>>
      ELSE <<magnitude>>

\* --------------------------------------------------------- split and join
RECURSIVE Split(_, _)
\* str.split(sep) / re.split over a set of one-character separators
Split(s, seps) ==
  LET at == {i \in 1..Len(s) : s[i] \in seps}
  IN  IF at = {} THEN <<s>>
      ELSE LET i == CHOOSE i \in at : \A j \in at : i <= j
           IN  <<SubSeq(s, 1, i - 1)>> \o Split(SubSeq(s, i + 1, Len(s)), seps)

RECURSIVE JoinText(_, _)
\* sep.join(parts)
JoinText(parts, sep) ==
  IF parts = <<>> THEN <<>>
  ELSE IF Len(parts) = 1 THEN parts[1]
  ELSE parts[1] \o sep \o JoinText(Tail(parts), sep)

StripAll(parts) == [i \in 1..Len(parts) |-> Strip(parts[i])]

\* list[:n]
Take(list, k) == SubSeq(list, 1, IF Len(list) < k THEN Len(list) ELSE k)

\* --------------------------------------------------------------- adapters
\* the argument order of asyncio.gather in fetch_all
AdapterOrder == <<"gas.didnt.work", "circlek", "neste", "virsi", "viada">>

Adapters == {AdapterOrder[i] : i \in 1..Len(AdapterOrder)}

CIRCLEK_NAME == <<"C","i","r","c","l","e"," ","K">>

NESTE_NAME == <<"N","e","s","t","e">>

VIRSI_NAME == <<"V","i","r","U+0161","i">>

VIADA_NAME == <<"V","i","a","d","a">>

CirclekAddrCap == 20

NesteAddrCap == 20

VirsiAddrCap == 10

ViadaAddrCap == 20

MinAddrLen == 3

LpgBelow == 1000

\* the station dict
Station(name, address, prices, source, timestamp) ==
  [name |-> name, address |-> address, prices |-> prices,
   source |-> source, timestamp |-> timestamp]

\* what an adapter coroutine ends with
Returned(stations) == [kind |-> "returned", stations |-> stations]

Raised == [kind |-> "raised", stations |-> <<>>]

\* prices[key] = parse_eur(m.group(1)) for every key whose pattern matched
PricesFound(found) ==
  [k \in {k \in DOMAIN found : found[k] # None} |-> parse_eur(found[k][1])]

\* [a.strip() for a in parts if len(a.strip()) > 3]
LongParts(parts) == SelectSeq(StripAll(parts), LAMBDA a : Len(a) > MinAddrLen)

\* one regex match of fetch_gas_didnt_work: group 1, group 2, group 3
GasStation(m) ==
  LET full == Strip(m.full)
      price == parse_eur(m.price)
      date == IF m.date = None THEN "" ELSE m.date[1]
      parts == StripAll(Split(full, {","}))
      name == parts[1]
      address == IF Len(parts) > 1 THEN JoinText(Tail(parts), <<",", " ">>) ELSE <<>>
  IN  Station(name, address,
              [k \in {"a95", "diesel"} |-> price], "gas.didnt.work", date)

GasStations(page) == [i \in 1..Len(page.matches) |-> GasStation(page.matches[i])]

CirclekStations(page) ==
  LET prices == PricesFound(page.found)
      addresses == IF page.addrs = None THEN <<>>
                   ELSE LongParts(Split(page.addrs[1], {","}))
      shown == Take(addresses, CirclekAddrCap)
  IN  [i \in 1..Len(shown) |-> Station(CIRCLEK_NAME, shown[i], prices, "circlek", "")]

NesteStations(page) ==
  LET prices == PricesFound(page.found)
      addr_block == IF page.addrs = None THEN <<>>
                    ELSE LongParts(Split(page.addrs[1], {",", ";"}))
      shown == Take(addr_block, NesteAddrCap)
  IN  [i \in 1..Len(shown) |-> Station(NESTE_NAME, shown[i], prices, "neste", "")]

VirsiStations(page) ==
  LET prices == PricesFound(page.found)
      shown == Take(page.addresses, VirsiAddrCap)
  IN  [i \in 1..Len(shown) |-> Station(VIRSI_NAME, shown[i], prices, "virsi", "")]

RECURSIVE ViadaPrices(_, _)
\* the loop over the "<number> EUR" tokens; error: a token parsed to None was
\* compared with 1.0 (TypeError)
ViadaPrices(tokens, acc) ==
  IF tokens = <<>> \/ acc.error THEN acc
  ELSE LET val == parse_eur(Head(tokens))
           prices == acc.prices
           has(k) == k \in DOMAIN prices
           lower(k) == ~has(k) \/ val[1] < prices[k][1]
       IN  IF val = None THEN [error |-> TRUE, prices |-> prices]
           ELSE IF val[1] < LpgBelow
           THEN ViadaPrices(Tail(tokens),
                  [error |-> FALSE,
                   prices |-> [k \in DOMAIN prices \cup {"lpg"} |->
                     IF k = "lpg" /\ lower(k) THEN val ELSE prices[k]]])
           ELSE ViadaPrices(Tail(tokens),
                  [error |-> FALSE,
                   prices |-> [k \in DOMAIN prices \cup {"a95", "diesel"} |->
                     IF k \in {"a95", "diesel"} /\ lower(k) THEN val ELSE prices[k]]])

ViadaOutcome(page) ==
  LET loop == ViadaPrices(page.tokens, [error |-> FALSE, prices |-> <<>>])
      shown == Take(page.addresses, ViadaAddrCap)
  IN  IF loop.error THEN Raised
      ELSE Returned([i \in 1..Len(shown) |->
                       Station(VIADA_NAME, shown[i], loop.prices, "viada", "")])

\* An adapter from its request to its return.  resp.status = "error": _get
\* raised (network error, timeout, non-2xx); resp.soup = "rejected":
\* BeautifulSoup(html, "lxml") raised on the body.
AdapterRun(a, resp) ==
  IF resp.status = "error" THEN Returned(<<>>)
  ELSE IF resp.soup = "rejected" THEN Raised
  ELSE CASE a = "gas.didnt.work" -> Returned(GasStations(resp.page))
         [] a = "circlek" -> Returned(CirclekStations(resp.page))
         [] a = "neste" -> Returned(NesteStations(resp.page))
         [] a = "virsi" -> Returned(VirsiStations(resp.page))
         [] a = "viada" -> ViadaOutcome(resp.page)

\* ------------------------------------------------- what the sites answer
\* A page is what the adapter's patterns find in the text of the document.
MaxMatches == 2

\* matches of the gas.didnt.work pattern: "Viada, Astras 3" / 1.45 / dated,
\* " VIADA ,astras 3 " / 1.37 / undated, "Neste" / 1.500 / undated
GasMatches ==
  {[full |-> <<"V","i","a","d","a",","," ","A","s","t","r","a","s"," ","3">>,
    price |-> <<"1",".","4","5">>, date |-> <<"2025-11-08">>],
   [full |-> <<" ","V","I","A","D","A"," ",",","a","s","t","r","a","s"," ","3"," ">>,
    price |-> <<"1",".","3","7">>, date |-> None],
   [full |-> <<"N","e","s","t","e">>,
    price |-> <<"1",".","5","0","0">>, date |-> None]}

GasPages ==
  {[matches |-> ms] : ms \in UNION {[1..k -> GasMatches] : k \in 0..MaxMatches}}

\* 95miles 1.500, Dmiles 1.450; addresses "Astras 10, ASTRAS 10 ,abc"
CirclekPages ==
  {[found |-> [a95 |-> <<<<"1",".","5","0","0">>>>, a98 |-> None,
               diesel |-> <<<<"1",".","4","5","0">>>>, lpg |-> None],
    addrs |-> <<<<"A","s","t","r","a","s"," ","1","0",","," ","A","S","T","R","A","S",
                 " ","1","0"," ",",","a","b","c">>>>],
   [found |-> [a95 |-> <<<<"1",".","4","5","0">>>>, a98 |-> None,
               diesel |-> None, lpg |-> <<<<"0",".","7","3","5">>>>],
    addrs |-> None]}

\* Futura 95 1.450, Futura D 1.500; addresses "Krasta 1;Astras 10"
NestePages ==
  {[found |-> [a95 |-> <<<<"1",".","4","5","0">>>>, a98 |-> None,
               diesel |-> <<<<"1",".","5","0","0">>>>],
    addrs |-> <<<<"K","r","a","s","t","a"," ","1",";","A","s","t","r","a","s"," ",
                 "1","0">>>>]}

\* 95E Gasoline 1.450, LPG 0.735; addresses "Krasta 1", "Krasta 1 "
VirsiPages ==
  {[found |-> [a95 |-> <<<<"1",".","4","5","0">>>>, a98 |-> None, diesel |-> None,
               lpg |-> <<<<"0",".","7","3","5">>>>],
    addresses |-> << <<"K","r","a","s","t","a"," ","1">>,
                     <<"K","r","a","s","t","a"," ","1"," ">> >>]}

\* tokens 1.500, 0.735, 1.450 with address "Astras 3"; tokens 0.000, 1.500
\* with addresses "Astras 3", "Riga Krasta 1" (i-macron)
ViadaPages ==
  {[tokens |-> << <<"1",".","5","0","0">>, <<"0",".","7","3","5">>,
                  <<"1",".","4","5","0">> >>,
    addresses |-> << <<"A","s","t","r","a","s"," ","3">> >>],
   [tokens |-> << <<"0",".","0","0","0">>, <<"1",".","5","0","0">> >>,
    addresses |-> << <<"A","s","t","r","a","s"," ","3">>,
                     <<"R","U+012B","g","a"," ","K","r","a","s","t","a"," ","1">> >>]}

Pages(a) ==
  CASE a = "gas.didnt.work" -> GasPages
    [] a = "circlek" -> CirclekPages
    [] a = "neste" -> NestePages
    [] a = "virsi" -> VirsiPages
    [] a = "viada" -> ViadaPages

Responses(a) ==
  {[status |-> "error"], [status |-> "ok", soup |-> "rejected"]}
    \cup {[status |-> "ok", soup |-> "parsed", page |-> p] : p \in Pages(a)}

\* -------------------------------------------------------------- fetch_all
Waiting == [kind |-> "waiting", stations |-> <<>>]

ReturnExceptionsOff == FALSE

\* asyncio.gather(..., return_exceptions=True)
ReturnExceptions == TRUE

\* whether gather re-raises a child's exception into fetch_all
GatherRaises(outcome) ==
  ~ReturnExceptions /\ \E a \in Adapters : outcome[a].kind = "raised"

\* the adapter whose result sits in each slot of gather's result list: the
\* argument order, whatever the order of completion
GatherSlots == AdapterOrder

\* a station dict is named by the adapter that returned it and its index there
Deref(objs, ref) == objs[ref[1]][ref[2]]

RECURSIVE Concat(_)
Concat(lists) == IF lists = <<>> THEN <<>> ELSE Head(lists) \o Concat(Tail(lists))

\* the loop "for res in results": exceptions skipped, lists extended
CollectStations(slots, outcome) ==
  Concat([i \in 1..Len(slots) |->
            IF outcome[slots[i]].kind = "raised" THEN <<>>
            ELSE [j \in 1..Len(outcome[slots[i]].stations) |-> <<slots[i], j>>]])

KeyCaseSensitive(st) == <<Strip(st.name), Strip(st.address)>>

\* (st["name"].strip().lower(), st["address"].strip().lower())
CanonicalKey(st) == <<Lower(Strip(st.name)), Lower(Strip(st.address))>>

MergeKeepingHigher(old, inc) ==
  [k \in DOMAIN old \cup {k \in DOMAIN inc : inc[k] # None} |->
     IF /\ k \in DOMAIN inc
        /\ inc[k] # None
        /\ (k \notin DOMAIN old \/ old[k] = None \/ inc[k][1] > old[k][1])
     THEN inc[k] ELSE old[k]]

\* the loop over st["prices"].items() on a key already in uniq: the prices of
\* uniq[key] afterwards
MergePrices(old, inc) ==
  [k \in DOMAIN old \cup {k \in DOMAIN inc : inc[k] # None} |->
     IF /\ k \in DOMAIN inc
        /\ inc[k] # None
        /\ (k \notin DOMAIN old \/ old[k] = None \/ inc[k][1] < old[k][1])
     THEN inc[k] ELSE old[k]]

RECURSIVE MergeLoopLastWins(_, _, _)
MergeLoopLastWins(stations, uniq, objs) ==
  IF stations = <<>> THEN [uniq |-> uniq, objs |-> objs]
  ELSE LET ref == Head(stations)
           st == Deref(objs, ref)
           key == CanonicalKey(st)
           at == {i \in 1..Len(uniq) : uniq[i].key = key}
       IN  IF at # {}
           THEN LET i == CHOOSE i \in at : TRUE
                    merged == MergePrices(Deref(objs, uniq[i].ref).prices, st.prices)
                IN  MergeLoopLastWins(Tail(stations),
                      [uniq EXCEPT ![i].ref = ref],
                      [objs EXCEPT ![ref[1]][ref[2]].prices = merged])
           ELSE MergeLoopLastWins(Tail(stations),
                          Append(uniq, [key |-> key, ref |-> ref]), objs)

RECURSIVE MergeLoop(_, _, _)
\* the loop "for st in stations".  uniq: the dict, as its (key, value) pairs in
\* insertion order, each value a reference to a station dict; objs: the
\* station dicts.  uniq[key]["prices"][k] = v writes into the dict first stored
\* under that key.
MergeLoop(stations, uniq, objs) ==
  IF stations = <<>> THEN [uniq |-> uniq, objs |-> objs]
  ELSE LET ref == Head(stations)
           st == Deref(objs, ref)
           key == CanonicalKey(st)
           at == {i \in 1..Len(uniq) : uniq[i].key = key}
       IN  IF at # {}
           THEN LET first == uniq[CHOOSE i \in at : TRUE].ref
                    merged == MergePrices(Deref(objs, first).prices, st.prices)
                IN  MergeLoop(Tail(stations), uniq,
                      [objs EXCEPT ![first[1]][first[2]].prices = merged])
           ELSE MergeLoop(Tail(stations),
                          Append(uniq, [key |-> key, ref |-> ref]), objs)

\* fetch_all from the join to its return
FetchAllEnd(outcome, objs) ==
  IF GatherRaises(outcome)
  THEN [raised |-> TRUE, dataset |-> <<>>, objs |-> objs]
  ELSE LET stations == CollectStations(GatherSlots, outcome)
           loop == MergeLoop(stations, <<>>, objs)
       IN  [raised |-> FALSE,
            dataset |-> [i \in 1..Len(loop.uniq) |-> loop.uniq[i].ref],
            objs |-> loop.objs]

\* ---------------------------------------------------------------- top_cmd
DefaultN == 20

MinN == 1

MaxN == 50

Min2(x, y) == IF x < y THEN x ELSE y

Max2(x, y) == IF x > y THEN x ELSE y

\* str.isdigit() on ASCII text
IsDigits(s) == s # <<>> /\ \A i \in 1..Len(s) : IsDigit(s[i])

\* n = 20; if len(args) >= 2 and args[1].isdigit(): n = max(1, min(50, int(args[1])))
CountOf(args) ==
  IF Len(args) >= 2 /\ IsDigits(args[2])
  THEN Max2(MinN, Min2(MaxN, DigitsValue(args[2])))
  ELSE DefaultN

FuelUnchecked(fuel) == TRUE

\* "if not fuel": the handler goes on to fetch only with a fuel id
FuelKnown(fuel) == fuel # None

\* st["prices"].get(fuel)
PriceOf(st, fuel) == IF fuel \in DOMAIN st.prices THEN st.prices[fuel] ELSE None

\* the loop building rows: (price, st) for every station pricing the fuel
RowsOf(stations, objs, fuel) ==
  LET priced == SelectSeq(stations, LAMBDA ref : PriceOf(Deref(objs, ref), fuel) # None)
  IN  [i \in 1..Len(priced) |->
         [price |-> PriceOf(Deref(objs, priced[i]), fuel)[1], ref |-> priced[i]]]

InsertBeforeEqual(sorted, row) ==
  LET k == Cardinality({i \in 1..Len(sorted) : sorted[i].price < row.price})
  IN  SubSeq(sorted, 1, k) \o <<row>> \o SubSeq(sorted, k + 1, Len(sorted))

\* where a row goes into rows sorted so far: after every row not dearer
InsertStable(sorted, row) ==
  LET k == Cardinality({i \in 1..Len(sorted) : sorted[i].price <= row.price})
  IN  SubSeq(sorted, 1, k) \o <<row>> \o SubSeq(sorted, k + 1, Len(sorted))

RECURSIVE SortFrom(_, _)
SortFrom(rows, sorted) ==
  IF rows = <<>> THEN sorted
  ELSE SortFrom(Tail(rows), InsertStable(sorted, Head(rows)))

\* rows.sort(key=lambda x: x[0]): ascending by price, stable
SortByPrice(rows) == SortFrom(rows, <<>>)

\* rows.sort(...); top_rows = rows[:n]
TopRows(rows, n) == Take(SortByPrice(rows), n)

\* the labels and counts users send after /top
FuelArgs == {<<"A","9","5">>, <<"l","p","g">>, <<"p","e","t","r","o","l">>}

CountArgs == {<<"0">>, <<"2">>, <<"6","0">>, <<"1","x">>}

\* message.text.split()[1:]
Messages ==
  {<<>>} \cup {<<f>> : f \in FuelArgs}
         \cup {<<f, c>> : f \in FuelArgs, c \in CountArgs}

\* ------------------------------------------------------------------ state
\* normalize_fuel_type has not returned yet
Pending == <<>>

VARIABLES
  label,        \* the label handed to normalize_fuel_type
  normalized,   \* Pending, or <<r>> with r what normalize_fuel_type returned
  tpc,          \* top_cmd: "idle", "announced", "fetching", "fetched", "done", "crashed"
  args,         \* the words after /top
  fuel,         \* what normalize_fuel_type gave for args[0]
  n,            \* the number of rows asked for
  replies,      \* the answers sent so far, by kind
  session,      \* the aiohttp session: "none", "open", "closed"
  top_rows,     \* the rows answered
  fpc,          \* fetch_all: "idle", "gathering", "done"
  outcome,      \* per adapter: Waiting, or what its coroutine ended with
  objects,      \* per adapter: the station dicts it returned, as they are now
  dataset,      \* the list fetch_all returns: references to station dicts
  fstatus       \* how fetch_all ended: "none", "returned", "raised"

varsNorm == <<label, normalized>>

varsTop == <<tpc, args, fuel, n, replies, session, top_rows>>

varsFetch == <<fpc, outcome, objects, dataset, fstatus>>

vars == <<varsNorm, varsTop, varsFetch>>

NormIdle == label = <<>> /\ normalized = Pending

TopIdle ==
  /\ tpc = "idle"
  /\ args = <<>>
  /\ fuel = None
  /\ n = DefaultN
  /\ replies = <<>>
  /\ session = "none"
  /\ top_rows = <<>>

FetchIdle ==
  /\ fpc = "idle"
  /\ outcome = [a \in Adapters |-> Waiting]
  /\ objects = [a \in Adapters |-> <<>>]
  /\ dataset = <<>>
  /\ fstatus = "none"

\* ------------------------------------------- normalize_fuel_type, driven
InitNorm ==
  /\ label \in Labels
  /\ normalized = Pending
  /\ TopIdle
  /\ FetchIdle

Normalize ==
  /\ normalized = Pending
  /\ normalized' = <<normalize_fuel_type(label)>>
  /\ UNCHANGED <<label, varsTop, varsFetch>>

NextNorm == Normalize

SpecNorm == InitNorm /\ [][NextNorm]_vars

\* ------------------------------------------------ the /top handler, driven
Init == NormIdle /\ TopIdle /\ FetchIdle

\* a /top message arrives: the handler runs to its first answer
Receive(words) ==
  /\ tpc = "idle"
  /\ args' = words
  /\ IF words = <<>>
     THEN /\ replies' = Append(replies, "usage")
          /\ tpc' = "done"
          /\ UNCHANGED <<fuel, n>>
     ELSE /\ n' = CountOf(words)
          /\ fuel' = normalize_fuel_type(words[1])
          /\ IF FuelKnown(fuel')
             THEN replies' = Append(replies, "fetching") /\ tpc' = "announced"
             ELSE replies' = Append(replies, "unknown_fuel") /\ tpc' = "done"
  /\ UNCHANGED <<session, top_rows, varsFetch, varsNorm>>

\* the session is opened and fetch_all called: gather starts the five
\* adapters, each runs to its await of the response
Launch ==
  /\ tpc = "announced"
  /\ fpc = "idle"
  /\ session' = "open"
  /\ tpc' = "fetching"
  /\ fpc' = "gathering"
  /\ UNCHANGED <<args, fuel, n, replies, top_rows, outcome, objects, dataset,
                 fstatus, varsNorm>>

\* the response (or the transport error) for adapter a arrives; the adapter
\* runs from there to its end without suspending
AdapterResume(a) ==
  /\ fpc = "gathering"
  /\ outcome[a] = Waiting
  /\ \E resp \in Responses(a) :
       LET end == AdapterRun(a, resp)
       IN  /\ outcome' = [outcome EXCEPT ![a] = end]
           /\ objects' = [objects EXCEPT ![a] = end.stations]
  /\ UNCHANGED <<fpc, dataset, fstatus, varsTop, varsNorm>>

\* all five are done: gather hands over the results, fetch_all merges and
\* returns (or raises) into the handler, which leaves the session block
Join ==
  /\ fpc = "gathering"
  /\ \A a \in Adapters : outcome[a] # Waiting
  /\ LET end == FetchAllEnd(outcome, objects)
     IN  /\ fstatus' = IF end.raised THEN "raised" ELSE "returned"
         /\ dataset' = end.dataset
         /\ objects' = end.objs
         /\ tpc' = IF end.raised THEN "crashed" ELSE "fetched"
  /\ fpc' = "done"
  /\ session' = "closed"
  /\ UNCHANGED <<args, fuel, n, replies, top_rows, outcome, varsNorm>>

\* the handler filters, sorts, cuts and answers
Rank ==
  /\ tpc = "fetched"
  /\ LET rows == RowsOf(dataset, objects, fuel[1])
     IN  IF rows = <<>>
         THEN /\ replies' = Append(replies, "no_prices")
              /\ top_rows' = <<>>
         ELSE /\ replies' = Append(replies, "top")
              /\ top_rows' = TopRows(rows, n)
  /\ tpc' = "done"
  /\ UNCHANGED <<args, fuel, n, session, varsFetch, varsNorm>>

Next ==
  \/ \E words \in Messages : Receive(words)
  \/ Launch
  \/ \E a \in Adapters : AdapterResume(a)
  \/ Join
  \/ Rank

Spec == Init /\ [][Next]_vars

\* ================================================================= claims
\* the station dicts the adapters returned, by reference
ReturnedRefs ==
  UNION {{<<a, i>> : i \in 1..Len(outcome[a].stations)} :
           a \in {x \in Adapters : outcome[x].kind = "returned"}}

\* a station dict as its adapter returned it, and as it is now
Original(ref) == outcome[ref[1]].stations[ref[2]]

Current(ref) == objects[ref[1]][ref[2]]

\* lowercased, trimmed name and address
StationKey(st) == <<Lower(Strip(st.name)), Lower(Strip(st.address))>>

\* the canonical key of every record returned, and of every record in the list
ReturnedKeys == [r \in ReturnedRefs |-> StationKey(Original(r))]

DatasetRefs == {dataset[i] : i \in 1..Len(dataset)}

DatasetKeys == [d \in DatasetRefs |-> StationKey(Current(d))]

MinOf(S) == CHOOSE x \in S : \A y \in S : x <= y

PricesQuoted(refs, f) ==
  {PriceOf(Original(r), f)[1] : r \in {q \in refs : PriceOf(Original(q), f) # None}}

\* C1: in the list fetch_all returns, every station some adapter returned has
\* a merged record under its canonical key, and for every fuel that record's
\* price is the minimum of the prices quoted for the fuel by the adapter
\* records with that key, the fuel being unpriced only if none quotes it.
C1_MergedPriceIsMinimum ==
  fpc = "done" =>
    LET rk == ReturnedKeys
        dk == DatasetKeys
    IN  \A key \in {rk[r] : r \in ReturnedRefs} :
          \E d \in DatasetRefs :
            /\ dk[d] = key
            /\ \A f \in SUPPORTED_FUELS :
                 LET quoted == PricesQuoted({r \in ReturnedRefs : rk[r] = key}, f)
                 IN  IF quoted = {} THEN PriceOf(Current(d), f) = None
                     ELSE PriceOf(Current(d), f) = <<MinOf(quoted)>>

\* three records of one station, and the merged a95 price is not the first's
C1_Witness ==
  /\ fpc = "done"
  /\ LET rk == ReturnedKeys
     IN  \E d \in DatasetRefs :
           /\ Cardinality({r \in ReturnedRefs : rk[r] = rk[d]}) >= 3
           /\ PriceOf(Current(d), "a95") # PriceOf(Original(d), "a95")

Failed(a) == outcome[a].kind = "raised" \/ outcome[a].stations = <<>>

\* C2: whichever adapters fail (raise or return nothing), fetch_all returns
\* without raising; what it returns are records of adapters that did not
\* fail, one for every station those adapters returned; with all five failed
\* it returns the empty list.
C2_FailuresOnlyShrink ==
  fpc = "done" =>
    /\ fstatus = "returned"
    /\ \A d \in DatasetRefs : d \in ReturnedRefs /\ ~Failed(d[1])
    /\ LET rk == ReturnedKeys
           dk == DatasetKeys
       IN  \A r \in ReturnedRefs : \E d \in DatasetRefs : dk[d] = rk[r]
    /\ (\A a \in Adapters : Failed(a)) => dataset = <<>>

\* one adapter raised, another came back empty, and the rest still gave data
C2_Witness ==
  /\ fpc = "done"
  /\ \E a, b \in Adapters :
       outcome[a].kind = "raised" /\ outcome[b] = Returned(<<>>)
  /\ dataset # <<>>

\* C3: no adapter raises to its caller: every failure at any of its steps is
\* caught inside it and an empty list returned.
C3_AdaptersNeverRaise ==
  \A a \in Adapters : outcome[a].kind # "raised"

\* C4: fetch_all leaves every record an adapter returned as the adapter
\* returned it: name, address, source, timestamp and prices.
C4_AdapterOutputUntouched ==
  \A a \in Adapters :
    outcome[a].kind = "returned" => objects[a] = outcome[a].stations

\* C5: the returned list holds exactly one record per canonical key occurring
\* among the adapter records: no two returned records share a key and every
\* key is there.
C5_OneRecordPerKey ==
  fpc = "done" =>
    LET rk == ReturnedKeys
        dk == DatasetKeys
    IN  /\ \A i, j \in 1..Len(dataset) : dk[dataset[i]] = dk[dataset[j]] => i = j
        /\ {dk[d] : d \in DatasetRefs} = {rk[r] : r \in ReturnedRefs}

\* collapsed into one record each: two records differing in case, two
\* differing in the whitespace around the address, and two same-named records
\* with an empty address
C5_Witness ==
  /\ fpc = "done"
  /\ LET rk == ReturnedKeys
         Collapsed(r, q) == r # q /\ rk[r] = rk[q]
     IN  /\ \E r, q \in ReturnedRefs :
              /\ Collapsed(r, q)
              /\ Lower(Original(r).address) = Lower(Original(q).address)
              /\ Original(r).address # Original(q).address
         /\ \E r, q \in ReturnedRefs :
              /\ Collapsed(r, q)
              /\ Strip(Original(r).address) = Strip(Original(q).address)
              /\ Original(r).address # Original(q).address
         /\ \E r, q \in ReturnedRefs :
              /\ Collapsed(r, q)
              /\ Original(r).address = <<>>
  /\ Len(dataset) = 3

\* where a station dict stands in the returned list
PlaceOf(ref) == CHOOSE i \in 1..Len(dataset) : dataset[i] = ref

PricedRefs == {d \in DatasetRefs : PriceOf(Current(d), fuel[1]) # None}

TopRefs == {top_rows[i].ref : i \in 1..Len(top_rows)}

\* C6: the ranking has at most n rows, n in 1..50; every row is a record of
\* the dataset with its price for the fuel asked; the rows are non-decreasing
\* by price; no record left out is strictly cheaper than a row; rows of equal
\* price stand in dataset order.
C6_RankingSound ==
  (tpc = "done" /\ fpc = "done") =>
    /\ n \in MinN..MaxN
    /\ Len(top_rows) <= n
    /\ \A i \in 1..Len(top_rows) :
         /\ top_rows[i].ref \in DatasetRefs
         /\ PriceOf(Current(top_rows[i].ref), fuel[1]) = <<top_rows[i].price>>
    /\ \A i, j \in 1..Len(top_rows) :
         i < j => /\ top_rows[i].price <= top_rows[j].price
                  /\ top_rows[i].ref # top_rows[j].ref
                  /\ top_rows[i].price = top_rows[j].price
                       => PlaceOf(top_rows[i].ref) < PlaceOf(top_rows[j].ref)
    /\ \A d \in PricedRefs \ TopRefs :
         \A i \in 1..Len(top_rows) :
           PriceOf(Current(d), fuel[1])[1] >= top_rows[i].price

\* the list was cut to n = 2 rows of equal price, with priced records left out
C6_Witness ==
  /\ tpc = "done" /\ fpc = "done"
  /\ n = 2 /\ Len(top_rows) = 2
  /\ top_rows[1].price = top_rows[2].price
  /\ Cardinality(PricedRefs) > 2

\* C8: every price stored in a record an adapter produced, and in every record
\* fetch_all returns, is a number strictly greater than zero.
C8_PricesPositive ==
  \A a \in Adapters :
    \A st \in {outcome[a].stations[i] : i \in 1..Len(outcome[a].stations)}
            \cup {objects[a][i] : i \in 1..Len(objects[a])} :
      \A f \in DOMAIN st.prices : st.prices[f] # None /\ st.prices[f][1] > 0

\* C9: when normalize_fuel_type gives none for the label of a /top message
\* the handler answers "unknown fuel", opens no session and never calls
\* fetch_all; fetch_all is called only after a label was normalized to an id.
C9_NoFetchForUnknownFuel ==
  /\ (tpc # "idle" /\ args # <<>> /\ normalize_fuel_type(args[1]) = None)
       => /\ replies = <<"unknown_fuel">>
          /\ session = "none"
          /\ fpc = "idle"
  /\ (fpc # "idle" \/ session # "none")
       => /\ args # <<>>
          /\ fuel # None
          /\ fuel = normalize_fuel_type(args[1])
          /\ fuel[1] \in SUPPORTED_FUELS

\* "/top petrol 2" was answered and nothing fetched
C9_Witness ==
  /\ tpc = "done"
  /\ args = << <<"p","e","t","r","o","l">>, <<"2">> >>
  /\ replies = <<"unknown_fuel">>
  /\ fpc = "idle"

\* the adapters in the order fetch_all names them
FixedOrder == <<"gas.didnt.work", "circlek", "neste", "virsi", "viada">>

\* the returned station dicts in the concatenation of the adapter outputs
RECURSIVE RefsFrom(_)
RefsFrom(k) ==
  IF k > Len(FixedOrder) THEN <<>>
  ELSE (IF outcome[FixedOrder[k]].kind = "returned"
        THEN [i \in 1..Len(outcome[FixedOrder[k]].stations) |-> <<FixedOrder[k], i>>]
        ELSE <<>>) \o RefsFrom(k + 1)

\* of those, the first for each canonical key
FirstSeen ==
  LET all == RefsFrom(1)
      rk == ReturnedKeys
      firsts == {i \in 1..Len(all) :
                   \A j \in 1..(i - 1) : rk[all[j]] # rk[all[i]]}
  IN  SelectSeq(all, LAMBDA r : \E i \in firsts : all[i] = r)

\* C10: merging starts only once all five adapters are done, and the list
\* returned is, key by key, the first record with that key in the adapter
\* outputs concatenated in the fixed adapter order, with that record's name,
\* address, source and timestamp: whatever the order of completion.
C10_FirstSeenFieldsKept ==
  /\ fpc = "gathering" => dataset = <<>> /\ C4_AdapterOutputUntouched
  /\ fpc = "done" =>
       /\ \A a \in Adapters : outcome[a] # Waiting
       /\ dataset = FirstSeen
       /\ \A d \in DatasetRefs :
            /\ Current(d).name = Original(d).name
            /\ Current(d).address = Original(d).address
            /\ Current(d).source = Original(d).source
            /\ Current(d).timestamp = Original(d).timestamp

\* a station both gas.didnt.work and viada returned, kept with the source and
\* date of gas.didnt.work
C10_Witness ==
  /\ fpc = "done"
  /\ LET rk == ReturnedKeys
     IN  \E d \in DatasetRefs :
           /\ Current(d).source = "gas.didnt.work"
           /\ Current(d).timestamp = "2025-11-08"
           /\ \E r \in ReturnedRefs : r[1] = "viada" /\ rk[r] = rk[d]

\* the label is b in some casing, with whitespace around it
IsLabelFor(b) ==
  \E l \in Pads, r \in Pads, c \in Casings(b) : label = Dress(l, c, r)

CanonicalTexts == {FuelText[f] : f \in SUPPORTED_FUELS}

AliasesNormalized ==
  \A f \in SUPPORTED_FUELS :
    \A a \in FUEL_ALIASES[f] : IsLabelFor(a) => normalized[1] = <<f>>

\* C7 as stated: every alias of f, in any casing and padding, normalizes to f,
\* and a label that is no alias and no canonical id normalizes to none.
C7_AliasesElseNone ==
  normalized # Pending =>
    /\ AliasesNormalized
    /\ (\A b \in AllAliases \cup CanonicalTexts : ~IsLabelFor(b))
         => normalized[1] = None

\* C7, amended: every alias of f, in any casing and padding, normalizes to f;
\* the loose forms 95m and a95e normalize to a95, 98m and a98e to a98; a label
\* that is no alias, no loose form and no canonical id normalizes to none.
C7_AliasesLooseElseNone ==
  normalized # Pending =>
    /\ AliasesNormalized
    /\ \A b \in Loose95 \ AllAliases : IsLabelFor(b) => normalized[1] = <<"a95">>
    /\ \A b \in Loose98 \ AllAliases : IsLabelFor(b) => normalized[1] = <<"a98">>
    /\ (\A b \in AllAliases \cup CanonicalTexts \cup Loose95 \cup Loose98 :
          ~IsLabelFor(b))
         => normalized[1] = None

\* " 98M" was normalized to a98
C7_Witness ==
  /\ label = <<" ", "9", "8", "M">>
  /\ normalized = << <<"a98">> >>

====
